---------------------------- MODULE Spec2Model ----------------------------
(***************************************************************************)
(* The modbus router of src/src/main.rs: main (the connection supervisor), *)
(* read_message (the frame decoder) and send_message_to_modbus (the        *)
(* register forwarder), as one sequential state machine.                   *)
(*                                                                         *)
(* Bytes are the integers 0..255, u16 values the integers 0..65535.  A     *)
(* device connection is the record `stream`: the bytes the peer delivers   *)
(* on it before it closes (data), and how many have been read (pos).       *)
(***************************************************************************)
EXTENDS Integers, Sequences, FiniteSets

(***************************************************************************)
(* Bounds of the model.                                                    *)
(***************************************************************************)
\* connect attempts main may make before the model stops it
MaxConnects == 2
\* whole frames a device delivers on one connection
MaxFrames == 2
\* bytes of the cut frame a device may deliver before it closes
TailLen == 10

(***************************************************************************)
(* Program constants.                                                      *)
(***************************************************************************)
\* let mut buffer: [u8; 27]
FrameLen == 27
\* const START_SEQ: [u8; 2] = [0x19, 0x00]
START_SEQ == <<25, 0>>
\* const MAC_ADDRESS: [u8; 6] = [0xD0, 0xCF, 0x5E, 0x82, 0x93, 0x7B]
MAC_ADDRESS == <<208, 207, 94, 130, 147, 123>>
\* if buffer[8] != 0x12
PayloadLen == 18

\* the error texts of read_message, and the two library error sources
ErrStartSeq == "Unrecognised start sequence"
ErrMacAddress == "Unexpected MAC address"
ErrPayloadLen == "Length of payload must be 0x12 (18 bytes)"
ErrIo == "io::Error from stream.read"
ErrModbus == "modbus::Error"

(***************************************************************************)
(* Values.                                                                 *)
(***************************************************************************)
\* Option<DeviceMessage>::None, and the empty slots of a Result
NoMsg == [none |-> TRUE]
NoErr == ""

\* Result<DeviceMessage, io::Error> and Result<(), modbus::Error>
Ok(m) == [ok |-> TRUE, err |-> NoErr, msg |-> m]
Err(e) == [ok |-> FALSE, err |-> e, msg |-> NoMsg]

\* rust slice buffer[from..to] (0-based, `to` exclusive) of a sequence
Slice(s, from, to) == SubSeq(s, from + 1, to)
\* rust index buffer[i] (0-based)
At(s, i) == s[i + 1]

\* [0; 27]
ZeroBuffer == [i \in 1..FrameLen |-> 0]

\* byteorder: (&buffer[i..i+2]).read_u16::<LittleEndian>()
ReadU16BE(s, i) == At(s, i) * 256 + At(s, i + 1)
ReadU8(s, i) == At(s, i)
ReadU16LE(s, i) == At(s, i) + 256 * At(s, i + 1)

\* `x as u16` of a u8 x: zero extension into 16 bits
SignExtendU8(b) == IF b >= 128 THEN 65280 + b ELSE b
U8AsU16(b) == b % 65536

(***************************************************************************)
(* read_message, after the accumulation loop: header checks and decoding.  *)
(***************************************************************************)
\* the DeviceMessage literal of lines 103-118
DeviceMessageBE(buffer) ==
    [batt_pid1 |-> At(buffer, 9), batt_value |-> At(buffer, 10),
     temp_pid2 |-> At(buffer, 11), temp_value |-> At(buffer, 12),
     vib_pid3 |-> At(buffer, 13),
     vib_x |-> ReadU16BE(buffer, 14),
     vib_y |-> ReadU16BE(buffer, 16),
     vib_z |-> ReadU16BE(buffer, 18),
     msg_num_pid5 |-> At(buffer, 20),
     msg_num_value |-> ReadU16BE(buffer, 21),
     version_pid11 |-> At(buffer, 23), version_value |-> At(buffer, 24),
     rssi_pid6 |-> At(buffer, 25), rssi_value |-> At(buffer, 26)]

DeviceMessage(buffer) ==
    [batt_pid1 |-> At(buffer, 9), batt_value |-> At(buffer, 10),
     temp_pid2 |-> At(buffer, 11), temp_value |-> At(buffer, 12),
     vib_pid3 |-> At(buffer, 13),
     vib_x |-> ReadU16LE(buffer, 14),
     vib_y |-> ReadU16LE(buffer, 16),
     vib_z |-> ReadU16LE(buffer, 18),
     msg_num_pid5 |-> At(buffer, 20),
     msg_num_value |-> ReadU16LE(buffer, 21),
     version_pid11 |-> At(buffer, 23), version_value |-> At(buffer, 24),
     rssi_pid6 |-> At(buffer, 25), rssi_value |-> At(buffer, 26)]

\* lines 76-121 with the length check made before the other two
ValidateLenFirst(buffer) ==
    IF At(buffer, 8) # PayloadLen THEN Err(ErrPayloadLen)
    ELSE IF Slice(buffer, 2, 8) # MAC_ADDRESS THEN Err(ErrMacAddress)
    ELSE IF Slice(buffer, 0, 2) # START_SEQ THEN Err(ErrStartSeq)
    ELSE Ok(DeviceMessage(buffer))

\* lines 76-121 without the check of the MAC address
ValidateSkipsMac(buffer) ==
    IF Slice(buffer, 0, 2) # START_SEQ THEN Err(ErrStartSeq)
    ELSE IF At(buffer, 8) # PayloadLen THEN Err(ErrPayloadLen)
    ELSE Ok(DeviceMessage(buffer))

\* lines 76-121: the three header checks in order, then the decoding
Validate(buffer) ==
    IF Slice(buffer, 0, 2) # START_SEQ THEN Err(ErrStartSeq)
    ELSE IF Slice(buffer, 2, 8) # MAC_ADDRESS THEN Err(ErrMacAddress)
    ELSE IF At(buffer, 8) # PayloadLen THEN Err(ErrPayloadLen)
    ELSE Ok(DeviceMessage(buffer))

(***************************************************************************)
(* send_message_to_modbus: the k-th register-client call for msg.          *)
(***************************************************************************)
Single(addr, value) ==
    [op |-> "write_single_register", addr |-> addr, values |-> <<value>>]
Multiple(addr, values) ==
    [op |-> "write_multiple_registers", addr |-> addr, values |-> values]

\* lines 129-137 with the version write made before the message-number write
RegisterCallSwapped(m, k) ==
    CASE k = 1 -> Single(U8AsU16(m.batt_pid1), U8AsU16(m.batt_value))
      [] k = 2 -> Single(U8AsU16(m.temp_pid2), U8AsU16(m.temp_value))
      [] k = 3 -> Multiple(U8AsU16(m.vib_pid3), <<m.vib_x, m.vib_y, m.vib_z>>)
      [] k = 4 -> Single(U8AsU16(m.version_pid11), U8AsU16(m.version_value))
      [] k = 5 -> Single(U8AsU16(m.msg_num_pid5), m.msg_num_value % 65536)
      [] k = 6 -> Single(U8AsU16(m.rssi_pid6), U8AsU16(m.rssi_value))

\* lines 129-137
RegisterCall(m, k) ==
    CASE k = 1 -> Single(U8AsU16(m.batt_pid1), U8AsU16(m.batt_value))
      [] k = 2 -> Single(U8AsU16(m.temp_pid2), U8AsU16(m.temp_value))
      [] k = 3 -> Multiple(U8AsU16(m.vib_pid3), <<m.vib_x, m.vib_y, m.vib_z>>)
      [] k = 4 -> Single(U8AsU16(m.msg_num_pid5), m.msg_num_value % 65536)
      [] k = 5 -> Single(U8AsU16(m.version_pid11), U8AsU16(m.version_value))
      [] k = 6 -> Single(U8AsU16(m.rssi_pid6), U8AsU16(m.rssi_value))

\* the number of register writes of send_message_to_modbus
NumWrites == 6

(***************************************************************************)
(* The inputs: frames and streams.                                         *)
(***************************************************************************)
\* the first two frames of tests::read_message_multiple_messages
SampleFrame1 ==
    <<25, 0, 208, 207, 94, 130, 147, 123, 18, 1, 0, 2, 84, 3, 254, 242, 90,
      2, 122, 7, 5, 58, 132, 11, 2, 6, 189>>
SampleFrame2 ==
    <<25, 0, 208, 207, 94, 130, 147, 123, 18, 1, 0, 2, 84, 3, 255, 242, 119,
      2, 116, 7, 5, 59, 132, 11, 2, 6, 203>>

\* frame f with the byte at (0-based) offset i replaced by b
WithByte(f, i, b) == [f EXCEPT ![i + 1] = b]

\* the frames of the three failing tests: one wrong header field each
\* (read_message_no_start_seq also has a wrong byte 2)
BadStartFrame == WithByte(WithByte(SampleFrame1, 0, 255), 2, 255)
BadMacFrame == WithByte(SampleFrame1, 2, 255)
BadLenFrame == WithByte(SampleFrame1, 8, 255)

\* the frames a device delivers to the supervisor
FrameSet ==
    {SampleFrame1, SampleFrame2, BadStartFrame, BadMacFrame, BadLenFrame}

RECURSIVE Concat(_)
Concat(frames) ==
    IF frames = <<>> THEN <<>> ELSE Head(frames) \o Concat(Tail(frames))

FrameSeqs == UNION {[1..n -> FrameSet] : n \in 0..MaxFrames}

\* what a device delivers on one connection before it closes: whole frames,
\* then nothing or the first TailLen bytes of one more
StreamSet ==
    {Concat(fs) \o tail : fs \in FrameSeqs,
                          tail \in {<<>>, SubSeq(SampleFrame1, 1, TailLen)}}

(***************************************************************************)
(* State.                                                                  *)
(***************************************************************************)
VARIABLES
    pc,             \* where main is
    modbus_clients, \* how many times the modbus client has been created
    modbus_open,    \* main holds the modbus client, its connection open
    attempts,       \* calls of TcpStream::connect so far
    stream,         \* the device connection: [id, open, data, pos]
    buffer,         \* read_message's buffer
    num_bytes,      \* read_message's num_bytes
    start_pos,      \* stream.pos when the current read_message call began
    n_calls,        \* calls of read_message on this stream, this one included
    last_read,      \* how the last stream.read of this call returned
    result,         \* the Result last returned to main
    msg,            \* the DeviceMessage main or send_message_to_modbus holds
    msg_src,        \* <<stream.id, offset>> of the frame msg was decoded from
    next_write,     \* the register write send_message_to_modbus is at
    calls,          \* the register-client calls made for msg, in order
    aborted,        \* the msg_src of every message whose forwarding failed
    panic_msg       \* the message of the panic that ended main, if any

vars == <<pc, modbus_clients, modbus_open, attempts, stream, buffer,
          num_bytes, start_pos, n_calls, last_read, result, msg, msg_src,
          next_write, calls, aborted, panic_msg>>

\* how a stream.read returned: not called yet, Ok(n) with n > 0, Ok(0), Err
NoRead == "none"
ReadData == "Ok(n)"
ReadEof == "Ok(0)"
ReadFailed == "Err"

\* the message of the panic that ended main: none, those of the two expect
\* calls of lines 23 and 28, and those of println! and eprintln!, which
\* panic when the write to stdout or stderr fails
NoPanic == ""
PanicNewClient == "Unable to create modbus client"
PanicConnect == "Unable to connect to remote host"
PanicStdout == "failed printing to stdout"
PanicStderr == "failed printing to stderr"
\* the message of an unwrap of an Err: the one env::args() panics with at
\* line 13 when an argument is not valid Unicode
PanicUnwrap == "called Result::unwrap() on an Err value"

NoStream == [id |-> 0, open |-> FALSE, data |-> <<>>, pos |-> 0]
\* the msg_src of no message
NoSrc == <<0, 0>>

Init ==
    /\ pc = "new_client"
    /\ modbus_clients = 0
    /\ modbus_open = FALSE
    /\ attempts = 0
    /\ stream = NoStream
    /\ buffer = ZeroBuffer
    /\ num_bytes = 0
    /\ start_pos = 0
    /\ n_calls = 0
    /\ last_read = NoRead
    /\ result = Ok(NoMsg)
    /\ msg = NoMsg
    /\ msg_src = NoSrc
    /\ next_write = 1
    /\ calls = <<>>
    /\ aborted = {}
    /\ panic_msg = NoPanic

(***************************************************************************)
(* main, lines 20-29: the modbus client and the device connection.         *)
(***************************************************************************)
\* read_message is entered: lines 66, 69
EnterReadMessage(s) ==
    /\ pc' = "read_loop"
    /\ buffer' = ZeroBuffer
    /\ num_bytes' = 0
    /\ start_pos' = s.pos
    /\ n_calls' = n_calls + 1
    /\ last_read' = NoRead

\* main panics at `msg`: the unwinding drops the values main holds, the
\* stream and the modbus client among them, and the process ends
Unwind(msg_) ==
    /\ pc' = "panicked"
    /\ panic_msg' = msg_
    /\ modbus_open' = FALSE
    /\ buffer' = ZeroBuffer
    /\ num_bytes' = 0
    /\ start_pos' = 0
    /\ n_calls' = 0
    /\ last_read' = NoRead
    /\ msg' = NoMsg
    /\ msg_src' = NoSrc

\* line 13: env::args().collect() meets an argument that is not valid
\* Unicode and panics; nothing is printed, no modbus client is created
ArgsNotUnicode ==
    /\ pc = "new_client"
    /\ Unwind(PanicUnwrap)
    /\ UNCHANGED <<modbus_clients, attempts, stream, result, next_write,
                   calls, aborted>>

\* line 17: println!("Parameter host: ..") cannot write to stdout and panics
\* (a host was passed on the command line)
ParamPrintFail ==
    /\ pc = "new_client"
    /\ Unwind(PanicStdout)
    /\ UNCHANGED <<modbus_clients, attempts, stream, result, next_write,
                   calls, aborted>>

\* lines 21-23: the modbus client is created
NewClientOk ==
    /\ pc = "new_client"
    /\ pc' = "connect"
    /\ modbus_clients' = modbus_clients + 1
    /\ modbus_open' = TRUE
    /\ UNCHANGED <<attempts, stream, buffer, num_bytes, start_pos, n_calls,
                   last_read, result, msg, msg_src, next_write, calls,
                   aborted, panic_msg>>

\* lines 22-23: Transport::new_with_cfg returns Err and expect panics
NewClientFail ==
    /\ pc = "new_client"
    /\ Unwind(PanicNewClient)
    /\ UNCHANGED <<modbus_clients, attempts, stream, result, next_write,
                   calls, aborted>>

\* line 27: println!("Connecting to ..") cannot write to stdout and panics;
\* no connect attempt is made
ConnectingPrintFail ==
    /\ pc = "connect"
    /\ Unwind(PanicStdout)
    /\ UNCHANGED <<modbus_clients, attempts, stream, result, next_write,
                   calls, aborted>>

\* lines 28-29: TcpStream::connect returns a stream, println!("Connected")
\* cannot write to stdout and panics; the stream is dropped unread
ConnectedPrintFail ==
    /\ pc = "connect"
    /\ attempts < MaxConnects
    /\ attempts' = attempts + 1
    /\ stream' = [id |-> attempts + 1, open |-> FALSE, data |-> <<>>,
                  pos |-> 0]
    /\ Unwind(PanicStdout)
    /\ UNCHANGED <<modbus_clients, result, next_write, calls, aborted>>

\* lines 27-35: both println! are written, TcpStream::connect returns a
\* stream on which the device will deliver `data`, and the inner loop calls
\* read_message.  The iteration
\* starts with no value of the previous one: no result, no call trace.
ConnectOk(data) ==
    /\ pc = "connect"
    /\ attempts < MaxConnects
    /\ attempts' = attempts + 1
    /\ stream' = [id |-> attempts + 1, open |-> TRUE, data |-> data, pos |-> 0]
    /\ EnterReadMessage(stream')
    /\ result' = Ok(NoMsg)
    /\ calls' = <<>>
    /\ next_write' = 1
    /\ UNCHANGED <<modbus_clients, modbus_open, msg, msg_src, aborted,
                   panic_msg>>

\* line 28 with a retry in place of expect: a failed connect is followed by
\* another connect attempt
ConnectFailRetries ==
    /\ pc = "connect"
    /\ attempts < MaxConnects
    /\ attempts' = attempts + 1
    /\ pc' = "connect"
    /\ UNCHANGED <<modbus_clients, modbus_open, stream, buffer, num_bytes,
                   start_pos, n_calls, last_read, result, msg, msg_src,
                   next_write, calls, aborted, panic_msg>>

\* line 28: TcpStream::connect returns Err and expect panics; the panic
\* unwinds main, which drops the modbus client
ConnectFail ==
    /\ pc = "connect"
    /\ attempts < MaxConnects
    /\ attempts' = attempts + 1
    /\ Unwind(PanicConnect)
    /\ UNCHANGED <<modbus_clients, stream, result, next_write, calls,
                   aborted>>

(***************************************************************************)
(* read_message, lines 64-122.                                             *)
(***************************************************************************)
\* buffer after a read that stored `bytes` from offset 0: the slice forgotten
ReadIntoStart(buf, n, bytes) ==
    [i \in 1..FrameLen |-> IF i <= Len(bytes) THEN bytes[i] ELSE buf[i]]

\* buffer after a read that stored `bytes` one place early, over the last
\* byte collected before it
ReadIntoBackOne(buf, n, bytes) ==
    LET at == IF n > 0 THEN n - 1 ELSE 0
    IN  [i \in 1..FrameLen |->
            IF at < i /\ i <= at + Len(bytes) THEN bytes[i - at] ELSE buf[i]]

\* buffer after stream.read(&mut buffer[n..]) stored `bytes`: line 73
ReadInto(buf, n, bytes) ==
    [i \in 1..FrameLen |->
        IF n < i /\ i <= n + Len(bytes) THEN bytes[i - n] ELSE buf[i]]

\* the whole buffer offered to stream.read
OfferedWhole(n) == FrameLen

\* the length of the slice &mut buffer[n..] offered to stream.read: line 73
Offered(n) == FrameLen - n

\* the loop test of line 70, one byte short
LoopDoneEarly(n) == n >= FrameLen - 1

\* the loop of line 70 is left: ~(num_bytes < buffer.len())
LoopDone(n) == ~(n < FrameLen)

\* line 73: stream.read returns Ok(n), n > 0 bytes of the data not yet read,
\* at most as many as the slice buffer[num_bytes..] holds
ReadSome(n) ==
    /\ pc = "read_loop"
    /\ stream.open
    /\ n >= 1
    /\ n <= Offered(num_bytes)
    /\ n <= Len(stream.data) - stream.pos
    /\ buffer' = ReadInto(buffer, num_bytes,
                          SubSeq(stream.data, stream.pos + 1, stream.pos + n))
    /\ num_bytes' = num_bytes + n
    /\ stream' = [stream EXCEPT !.pos = stream.pos + n]
    /\ last_read' = ReadData
    /\ pc' = IF LoopDone(num_bytes') THEN "validate" ELSE "read_loop"
    /\ UNCHANGED <<modbus_clients, modbus_open, attempts, start_pos, n_calls,
                   result, msg, msg_src, next_write, calls, aborted,
                   panic_msg>>

\* line 73: stream.read returns Ok(0), the peer has closed and all its data
\* has been read; num_bytes += 0 and the loop goes round again
ReadZero ==
    /\ pc = "read_loop"
    /\ stream.open
    /\ stream.pos = Len(stream.data)
    /\ last_read' = ReadEof
    /\ num_bytes' = num_bytes + 0
    /\ pc' = IF LoopDone(num_bytes') THEN "validate" ELSE "read_loop"
    /\ UNCHANGED <<modbus_clients, modbus_open, attempts, stream, buffer,
                   start_pos, n_calls, result, msg, msg_src, next_write,
                   calls, aborted, panic_msg>>

\* line 73: stream.read returns Err and `?` returns it from read_message
ReadErr ==
    /\ pc = "read_loop"
    /\ stream.open
    /\ last_read' = ReadFailed
    /\ result' = Err(ErrIo)
    /\ pc' = "match_read"
    /\ UNCHANGED <<modbus_clients, modbus_open, attempts, stream, buffer,
                   num_bytes, start_pos, n_calls, msg, msg_src, next_write,
                   calls, aborted, panic_msg>>

\* lines 76-121: the buffer is full; the checks, the decoding, the return
ReadMessageReturn ==
    /\ pc = "validate"
    /\ result' = Validate(buffer)
    /\ pc' = "match_read"
    /\ UNCHANGED <<modbus_clients, modbus_open, attempts, stream, buffer,
                   num_bytes, start_pos, n_calls, last_read, msg, msg_src,
                   next_write, calls, aborted, panic_msg>>

(***************************************************************************)
(* main, lines 33-58: the inner loop.                                      *)
(***************************************************************************)
\* break with the stream kept alive past the end of the outer loop's body:
\* the connection is still open at the next connect attempt
BreakLeavesOpen ==
    /\ stream' = stream
    /\ pc' = "connect"
    /\ buffer' = ZeroBuffer
    /\ num_bytes' = 0
    /\ start_pos' = 0
    /\ n_calls' = 0
    /\ last_read' = NoRead

\* break, and the end of the outer loop's body: stream goes out of scope (the
\* connection is closed, what it had not delivered is lost), and so do the
\* values of the inner loop
Break ==
    /\ stream' = [id |-> stream.id, open |-> FALSE, data |-> <<>>, pos |-> 0]
    /\ pc' = "connect"
    /\ buffer' = ZeroBuffer
    /\ num_bytes' = 0
    /\ start_pos' = 0
    /\ n_calls' = 0
    /\ last_read' = NoRead

\* the stream of a connection that has been dropped
Dropped(s) == [id |-> s.id, open |-> FALSE, data |-> <<>>, pos |-> 0]

\* line 38: println!("Received message ..") cannot write to stdout and
\* panics; send_message_to_modbus is not called
MainReadOkPrintFail ==
    /\ pc = "match_read"
    /\ result.ok
    /\ stream' = Dropped(stream)
    /\ Unwind(PanicStdout)
    /\ UNCHANGED <<modbus_clients, attempts, result, next_write, calls,
                   aborted>>

\* line 54: eprintln!("Error reading message ..") cannot write to stderr and
\* panics before the break
MainReadErrPrintFail ==
    /\ pc = "match_read"
    /\ ~result.ok
    /\ stream' = Dropped(stream)
    /\ Unwind(PanicStderr)
    /\ UNCHANGED <<modbus_clients, attempts, result, next_write, calls,
                   aborted>>

\* line 42: println!("Successfully sent ..") cannot write to stdout and
\* panics
MainSendOkPrintFail ==
    /\ pc = "match_send"
    /\ result.ok
    /\ stream' = Dropped(stream)
    /\ Unwind(PanicStdout)
    /\ UNCHANGED <<modbus_clients, attempts, result, next_write, calls,
                   aborted>>

\* line 46: eprintln!("Error sending message ..") cannot write to stderr and
\* panics before the break
MainSendErrPrintFail ==
    /\ pc = "match_send"
    /\ ~result.ok
    /\ stream' = Dropped(stream)
    /\ Unwind(PanicStderr)
    /\ UNCHANGED <<modbus_clients, attempts, result, next_write, calls,
                   aborted>>

\* lines 36-41: Ok(msg), the message is printed, and
\* send_message_to_modbus(msg, ..) is entered
MainReadOk ==
    /\ pc = "match_read"
    /\ result.ok
    /\ msg' = result.msg
    /\ msg_src' = <<stream.id, start_pos>>
    /\ next_write' = 1
    /\ calls' = <<>>
    /\ pc' = "write"
    /\ UNCHANGED <<modbus_clients, modbus_open, attempts, stream, buffer,
                   num_bytes, start_pos, n_calls, last_read, result, aborted,
                   panic_msg>>

\* the Err arm of line 51 as an unwrap: the error panics
MainReadErrPanics ==
    /\ pc = "match_read"
    /\ ~result.ok
    /\ stream' = [id |-> stream.id, open |-> FALSE, data |-> <<>>, pos |-> 0]
    /\ Unwind(PanicUnwrap)
    /\ UNCHANGED <<modbus_clients, attempts, result, next_write, calls,
                   aborted>>

\* lines 51-56: Err(e), the error is printed, break
MainReadErr ==
    /\ pc = "match_read"
    /\ ~result.ok
    /\ Break
    /\ UNCHANGED <<modbus_clients, modbus_open, attempts, result, msg,
                   msg_src, next_write, calls, aborted, panic_msg>>

(***************************************************************************)
(* send_message_to_modbus, lines 125-139.                                  *)
(***************************************************************************)
\* a call made on the modbus client main holds (&mut modbus_client)
Issue(call, ok) ==
    [op |-> call.op, addr |-> call.addr, values |-> call.values, ok |-> ok,
     src |-> msg_src, client |-> modbus_clients]

\* the write at next_write returns Ok: the next write, or Ok(()) after the last
WriteOk ==
    /\ pc = "write"
    /\ calls' = Append(calls, Issue(RegisterCall(msg, next_write), TRUE))
    /\ IF next_write = NumWrites
         THEN /\ result' = Ok(NoMsg)
              /\ msg' = NoMsg
              /\ msg_src' = NoSrc
              /\ pc' = "match_send"
              /\ UNCHANGED next_write
         ELSE /\ next_write' = next_write + 1
              /\ UNCHANGED <<result, msg, msg_src, pc>>
    /\ UNCHANGED <<modbus_clients, modbus_open, attempts, stream, buffer,
                   num_bytes, start_pos, n_calls, last_read, aborted,
                   panic_msg>>

\* the write at next_write returns Err and `?` returns it
WriteFail ==
    /\ pc = "write"
    /\ calls' = Append(calls, Issue(RegisterCall(msg, next_write), FALSE))
    /\ aborted' = aborted \cup {msg_src}
    /\ result' = Err(ErrModbus)
    /\ msg' = NoMsg
    /\ msg_src' = NoSrc
    /\ pc' = "match_send"
    /\ UNCHANGED <<modbus_clients, modbus_open, attempts, stream, buffer,
                   num_bytes, start_pos, n_calls, last_read, next_write,
                   panic_msg>>

\* line 42: Ok(_), and the inner loop calls read_message again
MainSendOk ==
    /\ pc = "match_send"
    /\ result.ok
    /\ EnterReadMessage(stream)
    /\ UNCHANGED <<modbus_clients, modbus_open, attempts, stream, result, msg,
                   msg_src, next_write, calls, aborted, panic_msg>>

\* the Err arm of line 43 replacing the client whose write failed: break,
\* and the modbus client is created again
MainSendErrNewClient ==
    /\ pc = "match_send"
    /\ ~result.ok
    /\ stream' = [id |-> stream.id, open |-> FALSE, data |-> <<>>, pos |-> 0]
    /\ pc' = "new_client"
    /\ buffer' = ZeroBuffer
    /\ num_bytes' = 0
    /\ start_pos' = 0
    /\ n_calls' = 0
    /\ last_read' = NoRead
    /\ UNCHANGED <<modbus_clients, modbus_open, attempts, result, msg,
                   msg_src, next_write, calls, aborted, panic_msg>>

\* lines 43-48: Err(e), the error is printed, break
MainSendErr ==
    /\ pc = "match_send"
    /\ ~result.ok
    /\ Break
    /\ UNCHANGED <<modbus_clients, modbus_open, attempts, result, msg,
                   msg_src, next_write, calls, aborted, panic_msg>>

(***************************************************************************)
(* The supervisor: main with read_message and send_message_to_modbus.      *)
(***************************************************************************)
Next ==
    \/ ArgsNotUnicode
    \/ ParamPrintFail
    \/ NewClientOk
    \/ NewClientFail
    \/ ConnectingPrintFail
    \/ \E data \in StreamSet : ConnectOk(data)
    \/ ConnectedPrintFail
    \/ ConnectFail
    \/ \E n \in 1..FrameLen : ReadSome(n)
    \/ ReadZero
    \/ ReadErr
    \/ ReadMessageReturn
    \/ MainReadOk
    \/ MainReadOkPrintFail
    \/ MainReadErr
    \/ MainReadErrPrintFail
    \/ WriteOk
    \/ WriteFail
    \/ MainSendOk
    \/ MainSendOkPrintFail
    \/ MainSendErr
    \/ MainSendErrPrintFail

Spec == Init /\ [][Next]_vars

(***************************************************************************)
(* The decoder alone, as the tests run it: read_message called once on a   *)
(* stream that holds one frame (a Cursor over 27 bytes).  The frame ranges *)
(* over headers with every combination of wrong bytes and over payloads    *)
(* that differ from the sample in one byte or in two adjacent bytes.       *)
(***************************************************************************)
\* the header of a well-formed frame, offsets 0..8
GoodHeader == START_SEQ \o MAC_ADDRESS \o <<PayloadLen>>

\* every header that has, at each offset, the right byte or its complement,
\* and at offset 8 also the lengths next to 0x12
Headers ==
    {[i \in 1..9 |->
         IF i \in wrong THEN 255 - GoodHeader[i] ELSE GoodHeader[i]] :
        wrong \in SUBSET (1..9)}
    \cup {[GoodHeader EXCEPT ![9] = b] : b \in {0, 17, 19, 27}}

ByteVals == {0, 1, 127, 128, 255}

HeaderFrames == {h \o Slice(SampleFrame1, 9, 27) : h \in Headers}

PayloadFrames ==
    {SampleFrame1, SampleFrame2}
    \cup {WithByte(SampleFrame1, i, b) : i \in 9..26, b \in ByteVals}
    \cup {WithByte(WithByte(SampleFrame1, i, b), i + 1, c) :
            i \in 9..25, b \in ByteVals, c \in ByteVals}

\* the message the specification gives for the sample frame, and messages
\* that differ from it in one field
SampleMessage ==
    [batt_pid1 |-> 1, batt_value |-> 0, temp_pid2 |-> 2, temp_value |-> 84,
     vib_pid3 |-> 3, vib_x |-> 62206, vib_y |-> 602, vib_z |-> 1914,
     msg_num_pid5 |-> 5, msg_num_value |-> 33850, version_pid11 |-> 11,
     version_value |-> 2, rssi_pid6 |-> 6, rssi_value |-> 189]

U8Fields ==
    {"batt_pid1", "batt_value", "temp_pid2", "temp_value", "vib_pid3",
     "msg_num_pid5", "version_pid11", "version_value", "rssi_pid6",
     "rssi_value"}
U16Fields == {"vib_x", "vib_y", "vib_z", "msg_num_value"}
U16Vals == {0, 1, 255, 256, 257, 32767, 32768, 65280, 65535}

MessageSet ==
    {SampleMessage}
    \cup {[SampleMessage EXCEPT ![f] = v] : f \in U8Fields, v \in ByteVals}
    \cup {[SampleMessage EXCEPT ![f] = v] : f \in U16Fields, v \in U16Vals}

\* the wire format of a message: the fixed header, then the fields in the
\* order of the frame layout, 16-bit fields low byte first
Encode(m) ==
    GoodHeader \o
    <<m.batt_pid1, m.batt_value, m.temp_pid2, m.temp_value, m.vib_pid3,
      m.vib_x % 256, m.vib_x \div 256, m.vib_y % 256, m.vib_y \div 256,
      m.vib_z % 256, m.vib_z \div 256, m.msg_num_pid5,
      m.msg_num_value % 256, m.msg_num_value \div 256,
      m.version_pid11, m.version_value, m.rssi_pid6, m.rssi_value>>

DecodeFrames ==
    HeaderFrames \cup PayloadFrames \cup {Encode(m) : m \in MessageSet}

\* let mut buff = Cursor::new(raw); read_message(&mut buff) is entered
InitDecode ==
    /\ \E raw \in DecodeFrames :
          stream = [id |-> 1, open |-> TRUE, data |-> raw, pos |-> 0]
    /\ pc = "read_loop"
    /\ modbus_clients = 0
    /\ modbus_open = FALSE
    /\ attempts = 0
    /\ buffer = ZeroBuffer
    /\ num_bytes = 0
    /\ start_pos = 0
    /\ n_calls = 1
    /\ last_read = NoRead
    /\ result = Ok(NoMsg)
    /\ msg = NoMsg
    /\ msg_src = NoSrc
    /\ next_write = 1
    /\ calls = <<>>
    /\ aborted = {}
    /\ panic_msg = NoPanic

NextDecode ==
    \/ \E n \in 1..FrameLen : ReadSome(n)
    \/ ReadMessageReturn

SpecDecode == InitDecode /\ [][NextDecode]_vars

(***************************************************************************)
(* The forwarder alone: send_message_to_modbus entered with any message.   *)
(***************************************************************************)
InitForward ==
    /\ msg \in MessageSet \cup {DeviceMessage(f) : f \in PayloadFrames}
    /\ pc = "write"
    /\ next_write = 1
    /\ calls = <<>>
    /\ msg_src = <<1, 0>>
    /\ stream = [id |-> 1, open |-> TRUE, data |-> <<>>, pos |-> 0]
    /\ modbus_clients = 1
    /\ modbus_open = TRUE
    /\ attempts = 1
    /\ buffer = ZeroBuffer
    /\ num_bytes = 0
    /\ start_pos = 0
    /\ n_calls = 1
    /\ last_read = NoRead
    /\ result = Ok(NoMsg)
    /\ aborted = {}
    /\ panic_msg = NoPanic

NextForward ==
    \/ WriteOk
    \/ WriteFail

SpecForward == InitForward /\ [][NextForward]_vars

(***************************************************************************)
(* Properties.                                                             *)
(***************************************************************************)
\* the bytes the current read_message call has taken from the stream
Consumed == stream.pos - start_pos

\* main is looking at an error that read_message or send_message_to_modbus
\* returned
AtError == pc \in {"match_read", "match_send"} /\ ~result.ok

\* C1: once a stream.read of the accumulation loop has returned zero bytes,
\* read_message has returned an I/O error to main; it is not in its loop.
C1_EndOfStreamIsAnIoError ==
    last_read = ReadEof => (pc = "match_read" /\ result = Err(ErrIo))

\* C2 as stated: once a device connection has succeeded, the process never
\* terminates, whatever fails.
C2_NothingIsFatalAfterFirstConnect ==
    stream.id >= 1 => pc # "panicked"

\* C2 as amended: once a device connection has succeeded, the process is
\* terminated only by the panic of a failed connect attempt or of a log line
\* that cannot be written to stdout or stderr; an error returned by
\* read_message or send_message_to_modbus leads main to the next connect
\* attempt unless its log line cannot be written, and a zero-byte read
\* terminates nothing.
C2_OnlyConnectAndLogFailuresAreFatal ==
    [][stream.id >= 1 =>
         /\ (pc' = "panicked" /\ pc # "panicked" =>
                /\ panic_msg' \in {PanicConnect, PanicStdout, PanicStderr}
                /\ panic_msg' = PanicConnect =>
                      pc = "connect" /\ attempts' = attempts + 1)
         /\ (AtError => pc' = "connect" \/ panic_msg' = PanicStderr)
         /\ (last_read' = ReadEof => pc' # "panicked")]_vars

\* an error has been recovered: main is back at connect after a connection
C2_Witness ==
    /\ stream.id >= 1
    /\ pc = "connect"
    /\ ~result.ok
    /\ attempts < MaxConnects

\* C3: every step main takes on an error returned by read_message or by
\* send_message_to_modbus drops the connection and leads to connect; every
\* step taken from connect is a connect attempt; a dropped connection is
\* never read again: reading is done on the open, most recently opened one.
C3_ErrorDropsAndReconnects ==
    /\ [][AtError => (pc' = "connect" /\ ~stream'.open
                      /\ stream'.id = stream.id)]_vars
    /\ [][pc = "connect" => attempts' = attempts + 1]_vars
    /\ [][~stream.open /\ stream'.open => stream'.id > stream.id]_vars
    /\ [](pc = "connect" => ~stream.open)
    /\ [](pc \in {"read_loop", "validate"} =>
             stream.open /\ stream.id = attempts)

\* C8 as stated: whenever read_message returns, with a message or an error,
\* it has taken exactly 27 bytes from the stream.
C8_AlwaysConsumes27 ==
    pc = "match_read" => Consumed = 27

\* C8 as amended: when read_message returns a message or a header error it
\* has taken exactly 27 bytes from the stream; when it returns the error of
\* a failed stream.read it has taken fewer than 27, those read before.
C8_Consumes27UnlessReadFails ==
    pc = "match_read" =>
        IF result = Err(ErrIo)
          THEN Consumed < 27 /\ Consumed = num_bytes /\ Consumed >= 0
          ELSE Consumed = 27

\* a header error returned for the second frame of a connection
C8_Witness ==
    /\ pc = "match_read"
    /\ result.err \in {ErrStartSeq, ErrMacAddress, ErrPayloadLen}
    /\ start_pos = 27
    /\ Consumed = 27

\* the frame a one-frame stream holds, by 0-based offset
In(i) == stream.data[i + 1]
StartOk == In(0) = 25 /\ In(1) = 0
MacOk ==
    /\ In(2) = 208 /\ In(3) = 207 /\ In(4) = 94
    /\ In(5) = 130 /\ In(6) = 147 /\ In(7) = 123
LenOk == In(8) = 18

\* read_message has returned for the one frame of the stream
Returned == pc = "match_read" /\ Len(stream.data) = 27

\* C4: the outcome for a 27-byte frame is decided by the first failing check
\* in the order start sequence, device identifier, payload length: a wrong
\* start sequence gives the start-sequence error whatever bytes 2-8 are, a
\* right start sequence with a wrong identifier the identifier error whatever
\* byte 8 is, and only a right start sequence and identifier with a wrong
\* byte 8 the length error; a frame passing all three gives a message.
C4_FirstFailingCheckDecides ==
    Returned =>
        /\ (~StartOk => result = Err(ErrStartSeq))
        /\ (StartOk /\ ~MacOk => result = Err(ErrMacAddress))
        /\ (StartOk /\ MacOk /\ ~LenOk => result = Err(ErrPayloadLen))
        /\ (StartOk /\ MacOk /\ LenOk => result.ok)

\* a frame with all three header fields wrong got the start-sequence error
C4_Witness ==
    /\ Returned
    /\ ~StartOk /\ ~MacOk /\ ~LenOk
    /\ result = Err(ErrStartSeq)

\* the fields of the frame layout, read from the 27 bytes f by offset
Lo16(f, i) == f[i + 1] + 256 * f[i + 2]
FieldsOf(f) ==
    [batt_pid1 |-> f[10], batt_value |-> f[11],
     temp_pid2 |-> f[12], temp_value |-> f[13],
     vib_pid3 |-> f[14],
     vib_x |-> Lo16(f, 14), vib_y |-> Lo16(f, 16), vib_z |-> Lo16(f, 18),
     msg_num_pid5 |-> f[21], msg_num_value |-> Lo16(f, 21),
     version_pid11 |-> f[24], version_value |-> f[25],
     rssi_pid6 |-> f[26], rssi_value |-> f[27]]

\* C9: for a frame that passes the three header checks read_message returns
\* the message whose fields are the payload bytes by position, two-byte
\* fields being low byte + 256 * high byte; the sample frame gives the
\* message of the specification (vib x = 62206, msgnum value = 33850).
C9_FieldsByPosition ==
    Returned /\ StartOk /\ MacOk /\ LenOk =>
        /\ result = Ok(FieldsOf(stream.data))
        /\ (stream.data = SampleFrame1 => result.msg = SampleMessage)

\* the sample frame has been decoded
C9_Witness ==
    /\ Returned
    /\ stream.data = SampleFrame1
    /\ result.ok
    /\ result.msg.vib_x = 62206
    /\ result.msg.msg_num_value = 33850

\* the well-formed frames among the inputs of the decoder
WellFormedFrames == {f \in DecodeFrames : SubSeq(f, 1, 9) = GoodHeader}

\* C10: decoding the wire format of a message returns that message, and two
\* well-formed frames with different payload bytes decode to different
\* messages.
C10_DecodeIsABijection ==
    Returned =>
        /\ \A m \in MessageSet : stream.data = Encode(m) => result = Ok(m)
        /\ StartOk /\ MacOk /\ LenOk =>
              \A g \in WellFormedFrames :
                  g # stream.data => Validate(g) # result

\* a message with a 16-bit field of two different bytes came back from its
\* wire format
C10_Witness ==
    /\ Returned
    /\ result.ok
    /\ result.msg = [SampleMessage EXCEPT !.vib_y = 65280]
    /\ stream.data = Encode(result.msg)

\* a register-client call as the client sees it: operation, address, values
Plain(c) == [op |-> c.op, addr |-> c.addr, values |-> c.values]
PlainCalls == [i \in 1..Len(calls) |-> Plain(calls[i])]

\* the six calls of the forwarding order for message m
ExpectedCalls(m) ==
    <<[op |-> "write_single_register", addr |-> m.batt_pid1,
       values |-> <<m.batt_value>>],
      [op |-> "write_single_register", addr |-> m.temp_pid2,
       values |-> <<m.temp_value>>],
      [op |-> "write_multiple_registers", addr |-> m.vib_pid3,
       values |-> <<m.vib_x, m.vib_y, m.vib_z>>],
      [op |-> "write_single_register", addr |-> m.msg_num_pid5,
       values |-> <<m.msg_num_value>>],
      [op |-> "write_single_register", addr |-> m.version_pid11,
       values |-> <<m.version_value>>],
      [op |-> "write_single_register", addr |-> m.rssi_pid6,
       values |-> <<m.rssi_value>>]>>

\* C5: while send_message_to_modbus runs, the calls it has made are the
\* first ones of the forwarding order for its message, and the step that
\* returns Ok leaves exactly the six calls of that order, none failed.
C5_SixCallsInOrder ==
    /\ [](pc = "write" =>
             PlainCalls = SubSeq(ExpectedCalls(msg), 1, next_write - 1))
    /\ [][pc = "write" /\ pc' = "match_send" /\ result'.ok =>
             /\ Len(calls') = 6
             /\ [i \in 1..6 |-> Plain(calls'[i])] = ExpectedCalls(msg)
             /\ \A i \in 1..6 : calls'[i].ok]_vars

\* a message with a 16-bit and a high one-byte value has been forwarded
C5_Witness ==
    /\ pc = "match_send"
    /\ result.ok
    /\ Len(calls) = 6
    /\ calls[3].values = <<62206, 602, 1914>>
    /\ calls[6].values = <<255>>

\* C6: a failed register write is the last call made for its message: the
\* calls before it succeeded and stay as made, send_message_to_modbus has
\* returned the error, main's step on it drops the connection and leads to
\* connect without another register call, and no later forwarding is for a
\* message whose forwarding failed.
C6_FailedWriteAborts ==
    /\ [](\A i \in 1..Len(calls) :
             ~calls[i].ok =>
                 /\ i = Len(calls)
                 /\ i <= 6
                 /\ \A j \in 1..(i - 1) : calls[j].ok
                 /\ calls[i].src \in aborted
                 /\ \/ pc = "match_send" /\ result = Err(ErrModbus)
                    \/ pc \in {"connect", "panicked"} /\ ~stream.open)
    /\ [][pc = "match_send" /\ ~result.ok =>
             pc' = "connect" /\ ~stream'.open /\ calls' = calls]_vars
    /\ [](pc = "write" =>
             /\ msg_src \notin aborted
             /\ \A i \in 1..Len(calls) : calls[i].src = msg_src)
    /\ [][aborted \subseteq aborted']_vars

\* the stream holds exactly n well-formed frames
HoldsFrames(n) ==
    /\ Len(stream.data) = 27 * n
    /\ \A i \in 1..n :
          SubSeq(stream.data, 27 * (i - 1) + 1, 27 * (i - 1) + 9) = GoodHeader

\* C7: on a stream of N well-formed frames every read_message call that
\* returns without a failed read is one of the first N, returns a message,
\* and has read the bytes at offsets 27*(i-1) .. 27*i-1 for the i-th call:
\* its message is built from those bytes and the stream stands at 27*i.
C7_SequentialFrames ==
    \A n \in 0..(MaxFrames + 1) :
        HoldsFrames(n) /\ pc = "match_read" /\ last_read # ReadFailed =>
            /\ n_calls \in 1..n
            /\ start_pos = 27 * (n_calls - 1)
            /\ stream.pos = 27 * n_calls
            /\ buffer =
                  SubSeq(stream.data, 27 * (n_calls - 1) + 1, 27 * n_calls)
            /\ result = Ok(FieldsOf(buffer))

\* the second frame of a stream of two different frames has been decoded
C7_Witness ==
    /\ HoldsFrames(2)
    /\ pc = "match_read"
    /\ n_calls = 2
    /\ result.ok
    /\ stream.data = SampleFrame1 \o SampleFrame2
    /\ result.msg.rssi_value = 203

\* C11: the modbus client is created once, before the first connect attempt;
\* from then on, through every drop and reopening of the device connection
\* and every failed register write, it is neither created again nor closed
\* while main runs, and every register call is made on that one client.
C11_OneModbusClient ==
    /\ [](pc \notin {"new_client", "panicked"} =>
             modbus_clients = 1 /\ modbus_open)
    /\ [](attempts > 0 => modbus_clients = 1)
    /\ [][pc # "new_client" =>
             /\ modbus_clients' = modbus_clients
             /\ (modbus_open' # modbus_open => pc' = "panicked")]_vars
    /\ [](\A i \in 1..Len(calls) : calls[i].client = 1)

\* in the second connection, after a failed register write in the first, a
\* call is made on the client created at startup
C11_Witness ==
    /\ stream.id = 2
    /\ stream.open
    /\ aborted # {}
    /\ Len(calls) >= 1
    /\ calls[1].client = 1
    /\ modbus_clients = 1
    /\ modbus_open

\* the frame of the open stream that starts at offset `off`
FrameAt(off) == SubSeq(stream.data, off + 1, off + 27)

\* C12: read_message returns a message only for a buffer whose bytes 0-8
\* are the start sequence, the MAC address and 0x12; main enters
\* send_message_to_modbus only on such a return; and every register call
\* carries fields of the frame its message was decoded from, a frame of the
\* open stream with that header.
C12_OnlyValidFramesForwarded ==
    /\ [](pc = "match_read" /\ result.ok =>
             /\ SubSeq(buffer, 1, 9) = GoodHeader
             /\ buffer = FrameAt(start_pos))
    /\ [][pc' = "write" /\ pc # "write" =>
             pc = "match_read" /\ result.ok /\ msg' = result.msg]_vars
    /\ [](pc = "write" =>
             /\ msg_src[1] = stream.id
             /\ SubSeq(FrameAt(msg_src[2]), 1, 9) = GoodHeader
             /\ msg = FieldsOf(FrameAt(msg_src[2])))
    /\ [][calls' # calls /\ calls' # <<>> =>
             /\ pc = "write"
             /\ Plain(calls'[Len(calls')]) =
                   ExpectedCalls(FieldsOf(FrameAt(msg_src[2])))[Len(calls')]]_vars

\* the second frame of a connection, a well-formed one, is being forwarded
C12_Witness ==
    /\ pc = "write"
    /\ msg_src = <<stream.id, 27>>
    /\ Len(calls) = 3
    /\ calls[3].values = <<62207, 631, 1908>>

\* C13: a message returned by read_message is moved into
\* send_message_to_modbus in the very next step of main, with no call made
\* for it yet; main holds a message only while that send runs, and the
\* message it holds is the one decoded by the latest read_message call; a
\* read_message call begins only while main holds no message, and the send
\* gives its message up when it returns.
C13_EachMessageSentOnce ==
    /\ [](pc # "write" => msg = NoMsg /\ msg_src = NoSrc)
    /\ [](pc = "write" =>
             /\ msg # NoMsg
             /\ n_calls >= 1
             /\ msg_src = <<stream.id, FrameLen * (n_calls - 1)>>
             /\ \A i \in 1..Len(calls) : calls[i].src = msg_src)
    /\ [][pc = "match_read" /\ result.ok =>
             /\ pc' = "write"
             /\ msg' = result.msg
             /\ msg_src' = <<stream.id, start_pos>>
             /\ calls' = <<>>
             /\ next_write' = 1
             /\ n_calls' = n_calls]_vars
    /\ [][pc' = "write" /\ pc # "write" => pc = "match_read" /\ result.ok]_vars
    /\ [][n_calls' > n_calls =>
             /\ n_calls' = n_calls + 1
             /\ msg = NoMsg
             /\ msg' = NoMsg
             /\ pc \in {"connect", "match_send"}]_vars
    /\ [][pc = "write" /\ pc' # "write" => msg' = NoMsg]_vars

\* the one-byte id field whose value is the address of the k-th write
IdField(m, k) ==
    CASE k = 1 -> m.batt_pid1
      [] k = 2 -> m.temp_pid2
      [] k = 3 -> m.vib_pid3
      [] k = 4 -> m.msg_num_pid5
      [] k = 5 -> m.version_pid11
      [] k = 6 -> m.rssi_pid6

\* the writes whose value is a one-byte field, and that field
U8Writes == {1, 2, 5, 6}
U8ValueField(m, k) ==
    CASE k = 1 -> m.batt_value
      [] k = 2 -> m.temp_value
      [] k = 5 -> m.version_value
      [] k = 6 -> m.rssi_value

\* C14: every register call is made with an address equal to its one-byte
\* id field, a number of 0..255, and a call that writes a one-byte value
\* field writes that same number of 0..255, for fields of 128 and above as
\* for the others: an rssi value of 0xBD is written as 189.
C14_BytesZeroExtended ==
    [][calls' # calls =>
          LET k == Len(calls')
              c == calls'[k]
          IN  /\ k = next_write
              /\ c.addr = IdField(msg, k)
              /\ c.addr \in 0..255
              /\ k \in U8Writes =>
                    /\ c.values = <<U8ValueField(msg, k)>>
                    /\ c.values[1] \in 0..255
              /\ k = 6 /\ msg.rssi_value = 189 => c.values = <<189>>]_vars

\* a message with an id of 255 and an rssi value of 0xBD has been forwarded
C14_Witness ==
    /\ Len(calls) = NumWrites
    /\ calls[1].addr = 255
    /\ calls[6].values = <<189>>
    /\ calls[6].ok

\* C15: a connect attempt, the first or a later one, that opens no
\* connection terminates the process with the panic of expect; the
\* terminated process takes no further step, so a failed connect is never
\* followed by another connect attempt; every attempt is made from connect
\* and either opens the next connection or ends the process.
C15_FailedConnectTerminates ==
    /\ [][attempts' # attempts =>
             /\ pc = "connect"
             /\ attempts' = attempts + 1
             /\ stream'.id \in {stream.id, attempts'}
             /\ stream'.id = stream.id =>
                   pc' = "panicked" /\ panic_msg' = PanicConnect
             /\ pc' \in {"read_loop", "panicked"}]_vars
    /\ [][pc = "panicked" => UNCHANGED vars]_vars
    /\ [](pc = "connect" => attempts = stream.id)
    /\ [](panic_msg = PanicConnect =>
             pc = "panicked" /\ attempts = stream.id + 1 /\ ~stream.open)

\* the connect attempt of the second cycle has failed: the process is
\* terminated with one connection opened in two attempts
C15_Witness ==
    /\ pc = "panicked"
    /\ panic_msg = PanicConnect
    /\ attempts = 2
    /\ stream.id = 1
    /\ ~stream.open
    /\ ~modbus_open

\* C16: whatever positive sizes the reads of a frame have, the buffer holds
\* the bytes delivered so far in stream order and nothing behind them; a read
\* leaves the bytes collected before it as they are and stores its own right
\* after them; the full buffer is the frame, and the result returned is the
\* one the frame determines, the same for every split.
C16_SplitIndependent ==
    /\ [](pc \in {"read_loop", "validate", "match_read"} =>
             /\ SubSeq(buffer, 1, num_bytes) = SubSeq(stream.data, 1, num_bytes)
             /\ \A i \in (num_bytes + 1)..FrameLen : buffer[i] = 0)
    /\ [][num_bytes' # num_bytes =>
             /\ num_bytes' > num_bytes
             /\ SubSeq(buffer', 1, num_bytes) = SubSeq(buffer, 1, num_bytes)
             /\ SubSeq(buffer', num_bytes + 1, num_bytes') =
                   SubSeq(stream.data, stream.pos + 1, stream.pos')
             /\ stream'.pos - stream.pos = num_bytes' - num_bytes]_vars
    /\ [](Returned => buffer = stream.data /\ result = Validate(stream.data))

\* a frame has been delivered in part: thirteen bytes are in their places,
\* the fourteenth, not zero in the frame, has not arrived
C16_Witness ==
    /\ pc = "read_loop"
    /\ last_read = ReadData
    /\ num_bytes = 13
    /\ SubSeq(buffer, 1, 13) = SubSeq(SampleFrame1, 1, 13)
    /\ stream.data = SampleFrame1
    /\ buffer[14] = 0
    /\ stream.data[14] # 0

\* the positions of the inner loop of lines 33-58
InnerLoop == {"read_loop", "validate", "match_read", "write", "match_send"}

\* C17: the step main takes when send_message_to_modbus has returned Ok is
\* the next read_message call on the same, still open connection, at the
\* byte after the frame just forwarded, with no connect attempt made; a
\* connection is closed and the inner loop left only by the step taken on
\* an error, so without an error the supervisor stays on its connection.
C17_StaysOnConnection ==
    /\ [][pc = "match_send" /\ result.ok =>
             /\ pc' = "read_loop"
             /\ stream.open
             /\ stream' = stream
             /\ attempts' = attempts
             /\ n_calls' = n_calls + 1
             /\ num_bytes' = 0
             /\ start_pos' = stream.pos
             /\ start_pos' = start_pos + FrameLen]_vars
    /\ [][stream.open /\ stream' # [stream EXCEPT !.pos = stream'.pos] =>
             AtError]_vars
    /\ [][pc' \notin InnerLoop /\ pc \in InnerLoop =>
             (AtError /\ pc' = "connect")]_vars
    /\ [](pc \in InnerLoop => stream.open /\ stream.id = attempts)

\* the connections open in a state
OpenConnections == IF stream.open THEN {stream.id} ELSE {}

\* C18: at most one device connection is open, and it is the one opened by
\* the latest connect attempt; a connect attempt is made only when no
\* connection is open, the one abandoned before it having been dropped; and
\* every read is made on the open connection of the latest attempt, none on
\* an earlier one.
C18_OneConnectionAtATime ==
    /\ [](/\ Cardinality(OpenConnections) <= 1
          /\ OpenConnections \subseteq {attempts})
    /\ [][attempts' # attempts =>
             /\ OpenConnections = {}
             /\ stream.id = attempts
             /\ OpenConnections' \subseteq {attempts'}]_vars
    /\ [][last_read' # NoRead /\ pc = "read_loop" =>
             /\ OpenConnections = {attempts}
             /\ stream'.id = stream.id
             /\ stream'.id = attempts']_vars
    /\ [][stream'.pos > stream.pos => stream.open /\ stream.id = attempts]_vars

\* the first connection was abandoned and dropped, and bytes are being read
\* on the second, the only one open
C18_Witness ==
    /\ attempts = 2
    /\ OpenConnections = {2}
    /\ pc = "read_loop"
    /\ last_read = ReadData
    /\ num_bytes > 0
    /\ n_calls = 1

\* the errors of the three header checks
HeaderErrors == {ErrStartSeq, ErrMacAddress, ErrPayloadLen}

\* C19: num_bytes stays within 0..27 and equals the number of bytes taken
\* from the stream for the current frame; a read takes at most the 27 -
\* num_bytes bytes still missing, so never a byte of the next frame; the
\* header checks are made only once num_bytes is 27: a header error, also
\* one for bytes 0-1, is returned only for a full buffer, never while the
\* loop is still reading.
C19_NumBytesBounded ==
    /\ [](num_bytes \in 0..FrameLen)
    /\ [](pc \in {"read_loop", "validate", "match_read"} =>
             /\ Consumed = num_bytes
             /\ stream.pos <= start_pos + FrameLen)
    /\ [][stream'.pos > stream.pos =>
             /\ stream'.pos - stream.pos <= FrameLen - num_bytes
             /\ num_bytes' = num_bytes + (stream'.pos - stream.pos)]_vars
    /\ [](pc = "read_loop" => num_bytes < FrameLen)
    /\ [](pc = "validate" => num_bytes = FrameLen)
    /\ [][result' # result /\ result'.err \in HeaderErrors =>
             pc = "validate" /\ num_bytes = FrameLen]_vars
    /\ [](pc = "match_read" /\ result.err \in HeaderErrors =>
             num_bytes = FrameLen)

\* 26 bytes of the first frame are in, the start sequence among them
\* already wrong, more data waits behind the frame, and no error has been
\* returned: read_message is still in its loop
C19_Witness ==
    /\ pc = "read_loop"
    /\ num_bytes = FrameLen - 1
    /\ SubSeq(buffer, 1, 2) # START_SEQ
    /\ start_pos = 0
    /\ Len(stream.data) > FrameLen
    /\ result.ok

=============================================================================
